---- MODULE Spec2Model ----
(***************************************************************************)
(* Model of the package manifest conanfile.py (class AtomicStrainConan).   *)
(*                                                                         *)
(* State: `self`, the recipe object (the declared class attributes and the *)
(* consumption metadata cpp_info), and `log`, the record of every hook     *)
(* invocation made by the build orchestrator together with the calls the   *)
(* hook delegated to the native build driver and the exception, if any,    *)
(* with which the hook ended.                                              *)
(*                                                                         *)
(* Package references ("coretoolkit/1.0.0") and dependency targets         *)
(* ("coretoolkit::coretoolkit") are sequences of one-character strings, so *)
(* that a reference can be split at "/" and a target at "::".  The other   *)
(* strings are never taken apart and are kept as strings.                  *)
(***************************************************************************)
EXTENDS Naturals, Sequences, FiniteSets

VARIABLES self, log

vars == <<self, log>>

\* Number of hook invocations the orchestrator makes in one run.
MaxHooks == 4

Range(s) == {s[i] : i \in DOMAIN s}

-----------------------------------------------------------------------------
(* Class attributes, conanfile.py lines 6-17.                              *)

name == "atomic-strain"

version == "1.0.0"

package_type_shared == "shared-library"

package_type == "static-library"

license == "MIT"

settings == <<"os", "arch", "compiler", "build_type">>

\* "fmt/[>=10.2.1]": the last requirement as a version range.
requires_range ==
    << <<"c","o","r","e","t","o","o","l","k","i","t","/","1",".","0",".","0">>,
       <<"n","l","o","h","m","a","n","n","_","j","s","o","n","/","3",".","1","1",".","3">>,
       <<"s","p","d","l","o","g","/","1",".","1","4",".","1">>,
       <<"f","m","t","/","[",">","=","1","0",".","2",".","1","]">> >>

\* A fifth requirement, "zlib/1.3.1", that package_info() does not publish.
requires_extra ==
    << <<"c","o","r","e","t","o","o","l","k","i","t","/","1",".","0",".","0">>,
       <<"n","l","o","h","m","a","n","n","_","j","s","o","n","/","3",".","1","1",".","3">>,
       <<"s","p","d","l","o","g","/","1",".","1","4",".","1">>,
       <<"f","m","t","/","1","0",".","2",".","1">>,
       <<"z","l","i","b","/","1",".","3",".","1">> >>

\* "coretoolkit/1.0.0", "nlohmann_json/3.11.3", "spdlog/1.14.1", "fmt/10.2.1"
requires ==
    << <<"c","o","r","e","t","o","o","l","k","i","t","/","1",".","0",".","0">>,
       <<"n","l","o","h","m","a","n","n","_","j","s","o","n","/","3",".","1","1",".","3">>,
       <<"s","p","d","l","o","g","/","1",".","1","4",".","1">>,
       <<"f","m","t","/","1","0",".","2",".","1">> >>

exports_sources_tests == <<"CMakeLists.txt", "include/*", "src/*", "tests/*">>

exports_sources == <<"CMakeLists.txt", "include/*", "src/*">>

-----------------------------------------------------------------------------
(* The recipe object after construction: the class attributes, and a       *)
(* cpp_info with no property, no library and no requirement.               *)

Init ==
    /\ self = [name            |-> name,
               version         |-> version,
               package_type    |-> package_type,
               license         |-> license,
               settings        |-> settings,
               requires        |-> requires,
               exports_sources |-> exports_sources,
               cpp_info        |-> [properties |-> {},
                                    libs       |-> <<>>,
                                    requires   |-> <<>>]]
    /\ log = <<>>

-----------------------------------------------------------------------------
(* Delegated calls.  A hook body is a sequence of calls executed in order; *)
(* `fails` is the set of calls that raise when invoked (the environment's  *)
(* choice).  The hook has no try/except: the first call that raises ends   *)
(* the hook with that exception, and the calls after it are not made.      *)

\* A body that swallows the exception of a call and carries on.
Run_continue(ops, fails) ==
    LET bad == {i \in DOMAIN ops : ops[i] \in fails}
    IN  [calls  |-> ops,
         raised |-> IF bad = {} THEN "none"
                    ELSE ops[CHOOSE i \in bad : \A j \in bad : i <= j]]

Run(ops, fails) ==
    LET bad == {i \in DOMAIN ops : ops[i] \in fails}
    IN  IF bad = {}
        THEN [calls |-> ops, raised |-> "none"]
        ELSE LET k == CHOOSE i \in bad : \A j \in bad : i <= j
             IN  [calls |-> SubSeq(ops, 1, k), raised |-> ops[k]]

layout_calls == <<"cmake_layout">>

generate_calls == <<"CMakeToolchain.generate", "CMakeDeps.generate">>

\* build() with its two statements exchanged.
build_calls_swapped == <<"CMake.build", "CMake.configure">>

build_calls == <<"CMake.configure", "CMake.build">>

\* package() that configures again before installing.
package_calls_reconfigure == <<"CMake.configure", "CMake.install">>

package_calls == <<"CMake.install">>

\* The record of one invocation of hook h, whose body is the calls ops.
Hook(h, ops, fails) ==
    LET r == Run(ops, fails)
    IN  [hook |-> h, calls |-> r.calls, raised |-> r.raised]

layout ==
    /\ Len(log) < MaxHooks
    /\ \E fails \in SUBSET Range(layout_calls) :
         log' = Append(log, Hook("layout", layout_calls, fails))
    /\ UNCHANGED self

generate ==
    /\ Len(log) < MaxHooks
    /\ \E fails \in SUBSET Range(generate_calls) :
         log' = Append(log, Hook("generate", generate_calls, fails))
    /\ UNCHANGED self

build ==
    /\ Len(log) < MaxHooks
    /\ \E fails \in SUBSET Range(build_calls) :
         log' = Append(log, Hook("build", build_calls, fails))
    /\ UNCHANGED self

\* package() that also declares the library, as package_info() should.
package_sets_libs ==
    /\ Len(log) < MaxHooks
    /\ \E fails \in SUBSET Range(package_calls) :
         log' = Append(log, Hook("package", package_calls, fails))
    /\ self' = [self EXCEPT !.cpp_info.libs = <<"atomic-strain_lib">>]

package ==
    /\ Len(log) < MaxHooks
    /\ \E fails \in SUBSET Range(package_calls) :
         log' = Append(log, Hook("package", package_calls, fails))
    /\ UNCHANGED self

\* cpp_info.set_property(key, value): the property key now has this value.
set_property(cpp_info, key, value) ==
    [cpp_info EXCEPT !.properties =
        {p \in @ : p[1] # key} \cup {<<key, value>>}]

\* The four targets package_info() publishes.
cpp_info_requires ==
    << <<"c","o","r","e","t","o","o","l","k","i","t",":",":","c","o","r","e","t","o","o","l","k","i","t">>,
       <<"n","l","o","h","m","a","n","n","_","j","s","o","n",":",":","n","l","o","h","m","a","n","n","_","j","s","o","n">>,
       <<"s","p","d","l","o","g",":",":","s","p","d","l","o","g">>,
       <<"f","m","t",":",":","f","m","t">> >>

\* package_info() that forgets the last target, fmt::fmt.
package_info_missing_fmt ==
    /\ Len(log) < MaxHooks
    /\ self' = [self EXCEPT !.cpp_info =
                  [set_property(@, "cmake_target_name", "atomic-strain::atomic-strain")
                     EXCEPT !.libs = <<"atomic-strain_lib">>,
                            !.requires = SubSeq(cpp_info_requires, 1, 3)]]
    /\ log' = Append(log, [hook |-> "package_info", calls |-> <<>>, raised |-> "none"])

\* package_info() that appends to the lists instead of assigning them.
package_info_append ==
    /\ Len(log) < MaxHooks
    /\ self' = [self EXCEPT !.cpp_info =
                  [set_property(@, "cmake_target_name", "atomic-strain::atomic-strain")
                     EXCEPT !.libs = @ \o <<"atomic-strain_lib">>,
                            !.requires = @ \o cpp_info_requires]]
    /\ log' = Append(log, [hook |-> "package_info", calls |-> <<>>, raised |-> "none"])

package_info ==
    /\ Len(log) < MaxHooks
    /\ self' = [self EXCEPT !.cpp_info =
                  [set_property(@, "cmake_target_name", "atomic-strain::atomic-strain")
                     EXCEPT !.libs = <<"atomic-strain_lib">>,
                            !.requires = cpp_info_requires]]
    /\ log' = Append(log, [hook |-> "package_info", calls |-> <<>>, raised |-> "none"])

Next ==
    \/ layout
    \/ generate
    \/ build
    \/ package
    \/ package_info

Spec == Init /\ [][Next]_vars

-----------------------------------------------------------------------------
(* Vocabulary of the properties.                                           *)

HookNames == {"layout", "generate", "build", "package", "package_info"}

\* Position of the first character c of the sequence s, 0 when there is none.
IndexOf(s, c) ==
    IF \E i \in DOMAIN s : s[i] = c
    THEN CHOOSE i \in DOMAIN s : s[i] = c /\ \A j \in 1..(i - 1) : s[j] # c
    ELSE 0

\* The package of a reference "package/version" and its version.
PackageOf(ref) == SubSeq(ref, 1, IndexOf(ref, "/") - 1)

VersionOf(ref) == SubSeq(ref, IndexOf(ref, "/") + 1, Len(ref))

\* An exact version is made of digits and dots: "[>=1.0 <2.0]" is a range.
ExactVersion(v) ==
    /\ Len(v) > 0
    /\ \A i \in DOMAIN v : v[i] \in {"0","1","2","3","4","5","6","7","8","9","."}

\* The target "X::X" under which package X is published.
TargetOf(pkg) == pkg \o <<":", ":">> \o pkg

Ran(h) == \E i \in DOMAIN log : log[i].hook = h

\* The hook of the step that has just been taken.
LastHook == IF log = <<>> THEN "none" ELSE log[Len(log)].hook

\* Every delegated call of the first n invocations, in the order made.
RECURSIVE AllCalls(_)
AllCalls(n) == IF n = 0 THEN <<>> ELSE AllCalls(n - 1) \o log[n].calls

\* The first n invocations are the first n hooks of the lifecycle, none failed.
InLifecycleOrder(n) ==
    /\ n <= Len(log)
    /\ \A i \in 1..n :
         /\ log[i].hook = <<"layout", "generate", "build", "package">>[i]
         /\ log[i].raised = "none"

Before(s, a, b) ==
    \A i, j \in DOMAIN s : (s[i] = a /\ s[j] = b) => i < j

TypeOK ==
    /\ log \in Seq([hook : HookNames, calls : Seq(STRING), raised : STRING])
    /\ Len(log) <= MaxHooks

-----------------------------------------------------------------------------
(* Properties.                                                             *)

\* C1: once package_info() has run, the consumption metadata is exactly the
\* target name atomic-strain::atomic-strain, the single library
\* atomic-strain_lib, and the four targets coretoolkit::coretoolkit,
\* nlohmann_json::nlohmann_json, spdlog::spdlog and fmt::fmt.
C1_PublishedMetadata ==
    Ran("package_info") =>
        /\ self.cpp_info.properties =
               {<<"cmake_target_name", "atomic-strain::atomic-strain">>}
        /\ self.cpp_info.libs = <<"atomic-strain_lib">>
        /\ Len(self.cpp_info.requires) = 4
        /\ Range(self.cpp_info.requires) =
               { <<"c","o","r","e","t","o","o","l","k","i","t",":",":","c","o","r","e","t","o","o","l","k","i","t">>,
                 <<"n","l","o","h","m","a","n","n","_","j","s","o","n",":",":","n","l","o","h","m","a","n","n","_","j","s","o","n">>,
                 <<"s","p","d","l","o","g",":",":","s","p","d","l","o","g">>,
                 <<"f","m","t",":",":","f","m","t">> }

C1_Witness ==
    /\ LastHook = "package_info"
    /\ Ran("build")
    /\ Len(self.cpp_info.requires) = 4

\* C2: in every state the manifest requires exactly four packages, each at
\* one exact version (coretoolkit 1.0.0, nlohmann_json 3.11.3, spdlog 1.14.1,
\* fmt 10.2.1), none twice, none a version range; no hook adds a fifth.
C2_FourPinnedRequirements ==
    /\ Len(self.requires) = 4
    /\ { <<PackageOf(r), VersionOf(r)>> : r \in Range(self.requires) } =
         { << <<"c","o","r","e","t","o","o","l","k","i","t">>, <<"1",".","0",".","0">> >>,
           << <<"n","l","o","h","m","a","n","n","_","j","s","o","n">>, <<"3",".","1","1",".","3">> >>,
           << <<"s","p","d","l","o","g">>, <<"1",".","1","4",".","1">> >>,
           << <<"f","m","t">>, <<"1","0",".","2",".","1">> >> }
    /\ Cardinality({PackageOf(r) : r \in Range(self.requires)}) = 4
    /\ \A r \in Range(self.requires) : ExactVersion(VersionOf(r))

C2_Witness ==
    /\ Cardinality({log[i].hook : i \in DOMAIN log}) >= 4
    /\ Ran("package_info")
    /\ Len(self.requires) = 4

\* C3: in every state of the lifecycle the package identity is name
\* atomic-strain, version 1.0.0, license MIT, package type static-library.
C3_PackageIdentity ==
    /\ self.name = "atomic-strain"
    /\ self.version = "1.0.0"
    /\ self.license = "MIT"
    /\ self.package_type = "static-library"

C3_Witness ==
    /\ Len(log) >= 4
    /\ \A i \in 1..4 :
         log[i].hook = <<"generate", "build", "package", "package_info">>[i]
    /\ self.package_type = "static-library"

\* C4: an invocation of layout() makes one layout-setup call; of generate()
\* one toolchain-descriptor and one dependency-descriptor generation; of
\* build() one configure and one compile; of package() one install and no
\* configure or compile.  An invocation that ends without an exception has
\* made exactly these calls, and no invocation makes any other call or makes
\* a call twice.
C4_HooksDelegate ==
    \A i \in DOMAIN log :
      LET e == log[i]
          want == CASE e.hook = "layout"   -> <<"cmake_layout">>
                    [] e.hook = "generate" -> <<"CMakeToolchain.generate", "CMakeDeps.generate">>
                    [] e.hook = "build"    -> <<"CMake.configure", "CMake.build">>
                    [] e.hook = "package"  -> <<"CMake.install">>
                    [] OTHER               -> <<>>
      IN  /\ e.raised = "none" => e.calls = want
          /\ Len(e.calls) <= Len(want)
          /\ e.calls = SubSeq(want, 1, Len(e.calls))
          /\ e.hook = "package" =>
               /\ "CMake.configure" \notin Range(e.calls)
               /\ "CMake.build" \notin Range(e.calls)

C4_Witness ==
    /\ \A h \in {"layout", "generate", "build", "package"} :
         \E i \in DOMAIN log : log[i].hook = h /\ log[i].raised = "none"

\* C5: the manifest exports exactly three source locations: CMakeLists.txt
\* and the patterns include/* and src/*; no other path is exported.
C5_ExportedSources ==
    /\ Len(self.exports_sources) = 3
    /\ Range(self.exports_sources) = {"CMakeLists.txt", "include/*", "src/*"}

C5_Witness ==
    /\ Ran("package")
    /\ Ran("layout")
    /\ Len(self.exports_sources) = 3

\* C6: when a delegated call of a hook fails, the hook ends with that
\* failure: the failed call is the last call of the invocation, it was made
\* once, and no later call of the hook was made (no compile after a failed
\* configure, no dependency-descriptor generation after a failed toolchain
\* generation).
C6_NoRetryNoRecovery ==
    \A i \in DOMAIN log :
      LET e == log[i]
      IN  e.raised # "none" =>
            /\ e.calls # <<>>
            /\ e.calls[Len(e.calls)] = e.raised
            /\ Cardinality({k \in DOMAIN e.calls : e.calls[k] = e.raised}) = 1
            /\ e.raised = "CMake.configure" => "CMake.build" \notin Range(e.calls)
            /\ e.raised = "CMakeToolchain.generate" =>
                 "CMakeDeps.generate" \notin Range(e.calls)

C6_Witness ==
    /\ \E i \in DOMAIN log : log[i].raised = "CMake.configure"
    /\ \E i \in DOMAIN log : log[i].raised = "CMakeToolchain.generate"
    /\ \E i \in DOMAIN log : log[i].raised = "CMake.install"

\* C7: when the hooks run in lifecycle order (layout, generate, build,
\* package) and no call fails, the delegated calls are, each once and in
\* this order: layout setup, toolchain generation, dependency generation,
\* configure, compile, install; so configure precedes compile and compile
\* precedes install.
C7_LifecycleCallOrder ==
    \A n \in 0..4 :
      InLifecycleOrder(n) =>
        LET order == <<"cmake_layout", "CMakeToolchain.generate", "CMakeDeps.generate",
                       "CMake.configure", "CMake.build", "CMake.install">>
            made == AllCalls(n)
        IN  /\ made = SubSeq(order, 1, <<0, 1, 3, 5, 6>>[n + 1])
            /\ Before(made, "CMake.configure", "CMake.build")
            /\ Before(made, "CMake.build", "CMake.install")

C7_Witness ==
    /\ InLifecycleOrder(4)
    /\ Len(AllCalls(4)) = 6

\* C8: once package_info() has run, the declared requirements and the
\* published targets correspond one to one: every reference X/version of
\* requires has exactly one published entry X::X, and every published entry
\* is X::X for a package X of requires.
C8_RequiresMatchTargets ==
    Ran("package_info") =>
        /\ \A r \in Range(self.requires) :
             Cardinality({j \in DOMAIN self.cpp_info.requires :
                            self.cpp_info.requires[j] = TargetOf(PackageOf(r))}) = 1
        /\ \A j \in DOMAIN self.cpp_info.requires :
             \E r \in Range(self.requires) :
                self.cpp_info.requires[j] = TargetOf(PackageOf(r))

C8_Witness ==
    /\ Ran("package_info")
    /\ Len(self.requires) = 4
    /\ self.cpp_info.requires # <<>>
    /\ IndexOf(self.requires[2], "/") = 14

\* C9: no hook changes name, version, license, package_type, settings,
\* requires or exports_sources; only package_info() changes the consumption
\* metadata cpp_info, the other four hooks leave it as it is.
C9_DeclaredMetadataFrame ==
    [][ /\ self'.name = self.name
        /\ self'.version = self.version
        /\ self'.license = self.license
        /\ self'.package_type = self.package_type
        /\ self'.settings = self.settings
        /\ self'.requires = self.requires
        /\ self'.exports_sources = self.exports_sources
        /\ LastHook' # "package_info" => self'.cpp_info = self.cpp_info ]_vars

C9_Witness ==
    /\ Len(log) >= 3
    /\ log[1].hook = "package_info"
    /\ log[2].hook = "package"
    /\ log[3].hook = "build"
    /\ self.cpp_info.libs # <<>>

\* C10: package_info() is idempotent: a call that follows an earlier call
\* leaves the consumption metadata as that call left it, with one library
\* and four requirements.
C10_PackageInfoIdempotent ==
    [][ (Ran("package_info") /\ LastHook' = "package_info") =>
           /\ self'.cpp_info = self.cpp_info
           /\ Len(self'.cpp_info.libs) = 1
           /\ Len(self'.cpp_info.requires) = 4 ]_vars

C10_Witness ==
    /\ Len(log) >= 3
    /\ log[Len(log)].hook = "package_info"
    /\ log[Len(log) - 1].hook = "package_info"
    /\ log[Len(log) - 2].hook = "package_info"
    /\ Len(self.cpp_info.libs) = 1

====
